---- MODULE Spec2Model ----
(***************************************************************************)
(* Model of the lzop indexer (indexer.go): the header parser readHeader,   *)
(* the block scanner findBlock and the entry point CreateIndex.            *)
(*                                                                         *)
(* A source file is a sequence of bytes.  32-bit checksums are kept as     *)
(* sequences of four bytes (big-endian), since they do not fit the         *)
(* integers of the model checker; sizes and flags are integers.            *)
(***************************************************************************)
EXTENDS Integers, Sequences, FiniteSets, TLC

VARIABLES file, srcExists, createOK, pc, pos, indexer, hdr, indexes, zerr,
          err, dstLen, srcLen, indexExists, indexContent, result

vars == <<file, srcExists, createOK, pc, pos, indexer, hdr, indexes, zerr,
          err, dstLen, srcLen, indexExists, indexContent, result>>

(***************************************************************************)
(* Bounds of the model.                                                    *)
(***************************************************************************)
MaxBlocks == 2
MaxLen == 2
MaxNameLen == 1

(***************************************************************************)
(* Constants of the program.                                               *)
(***************************************************************************)
version == 4144
flagAdler32D == 1
flagAdler32C == 2
flagCRC32D == 256
flagCRC32C == 512
flagFilter == 2048
flagCRC32 == 4096
lzoMagic == <<137, 76, 90, 79, 0, 13, 10, 26, 10>>

\* error values
Nil == "nil"
EOF == "EOF"
ErrUnexpectedEOF == "unexpected EOF"
ErrInvalidHeader == "lzo: invalid header"
ErrIncompatibleVersion == "lzo: incompatible version"
ErrIncompatibleMethod == "lzo: incompatible method"
ErrDataCorruption == "lzo: data corruption"
ErrNotExist == "open: no such file or directory"
ErrCreate == "create: permission denied"
Panic == "panic"

(***************************************************************************)
(* Big-endian encoding and decoding (encoding/binary, BigEndian).          *)
(***************************************************************************)
BE16(v) == <<v \div 256, v % 256>>
BE32(v) == <<v \div 16777216, (v \div 65536) % 256, (v \div 256) % 256, v % 256>>
U16(b) == b[1] * 256 + b[2]
U32(b) == ((b[1] * 256 + b[2]) * 256 + b[3]) * 256 + b[4]

\* bit test of flags, as z.flags&flag != 0 (flag is a power of two)
HasFlag(flags, flag) == (flags \div flag) % 2 = 1

\* exclusive or, bit by bit
RECURSIVE Xor(_, _)
Xor(a, b) ==
  IF a = 0 THEN b
  ELSE IF b = 0 THEN a
  ELSE ((a + b) % 2) + 2 * Xor(a \div 2, b \div 2)

(***************************************************************************)
(* hash/adler32: a = 1 + the sum of the bytes, b = the sum of the          *)
(* successive values of a, both mod 65521; Sum32 = b<<16 | a.  Over n      *)
(* bytes, b = n + the sum of (n - i + 1) * bytes[i].                       *)
(***************************************************************************)
RECURSIVE adlerSum(_, _, _, _)
adlerSum(bytes, lo, hi, weighted) ==
  IF lo > hi THEN 0
  ELSE IF lo = hi
    THEN (IF weighted THEN (Len(bytes) - lo + 1) * bytes[lo] ELSE bytes[lo])
  ELSE LET mid == (lo + hi) \div 2
       IN adlerSum(bytes, lo, mid, weighted) + adlerSum(bytes, mid + 1, hi, weighted)

adler32(bytes) ==
  LET a == (1 + adlerSum(bytes, 1, Len(bytes), FALSE)) % 65521
      b == (Len(bytes) + adlerSum(bytes, 1, Len(bytes), TRUE)) % 65521
  IN BE16(b) \o BE16(a)

(***************************************************************************)
(* hash/crc32, IEEE polynomial (reflected 0xEDB88320), table driven; the   *)
(* 32-bit register is kept as two 16-bit halves <<hi, lo>>.                *)
(***************************************************************************)
\* one bit: shift right, and xor the polynomial when a one fell out
crcShift(c) ==
  LET sh == <<c[1] \div 2, (c[2] \div 2) + (c[1] % 2) * 32768>>
  IN IF c[2] % 2 = 1 THEN <<Xor(sh[1], 60856), Xor(sh[2], 33568)>> ELSE sh

RECURSIVE crcBits(_, _)
crcBits(c, n) == IF n = 0 THEN c ELSE crcBits(crcShift(c), n - 1)

IEEETable == [i \in 0..255 |-> crcBits(<<0, i>>, 8)]

\* crc = tab[byte(crc)^v] ^ (crc >> 8)
crcByte(c, v) ==
  LET e == IEEETable[Xor(c[2] % 256, v)]
  IN <<Xor(e[1], c[1] \div 256), Xor(e[2], (c[2] \div 256) + (c[1] % 256) * 256)>>

\* the register c after the bytes lo..hi: the register after the first half
\* of the bytes is computed, then the second half is run from it
RECURSIVE crcRun(_, _, _, _)
crcRun(bytes, lo, hi, c) ==
  IF lo > hi THEN c
  ELSE IF lo = hi THEN crcByte(c, bytes[lo])
  ELSE LET mid == (lo + hi) \div 2
       IN CHOOSE r \in {crcRun(bytes, mid + 1, hi, m) : m \in {crcRun(bytes, lo, mid, c)}} : TRUE

crc32(bytes) ==
  LET c == crcRun(bytes, 1, Len(bytes), <<65535, 65535>>)
  IN BE16(Xor(c[1], 65535)) \o BE16(Xor(c[2], 65535))

(***************************************************************************)
(* io.ReadFull on the source file at offset p: n bytes, or io.EOF when no  *)
(* byte is left, or io.ErrUnexpectedEOF when fewer than n are left.  The   *)
(* offset advances by the bytes actually read.                             *)
(***************************************************************************)
ReadFull(f, p, n) ==
  LET avail == IF p >= Len(f) THEN 0 ELSE Len(f) - p
  IN IF n = 0 THEN [err |-> Nil, data |-> <<>>, pos |-> p]
     ELSE IF avail = 0 THEN [err |-> EOF, data |-> <<>>, pos |-> p]
     ELSE IF avail < n
       THEN [err |-> ErrUnexpectedEOF, data |-> SubSeq(f, p + 1, Len(f)), pos |-> Len(f)]
     ELSE [err |-> Nil, data |-> SubSeq(f, p + 1, p + n), pos |-> p + n]

(***************************************************************************)
(* State of one readHeader call.  hashed is the bytes the TeeReader has    *)
(* fed to the two hashes since their last Reset; fields lists the header   *)
(* fields read so far; ckAt is the offset of the checksum field once it    *)
(* has been read (-1 before).                                              *)
(***************************************************************************)
newIndexer ==
  [err |-> Nil, pos |-> 0, hashed |-> <<>>, data |-> <<>>, fields |-> {},
   version |-> 0, libraryVersion |-> 0, method |-> 0, flags |-> 0,
   num_compressed_checksums |-> 0, num_decompressed_checksums |-> 0,
   name |-> <<>>, checksum |-> <<>>, ckAt |-> -1]

\* z.read(&field) / io.ReadFull(z.r, ...): skipped once an error was returned
read(f, s, n, field) ==
  IF s.err # Nil THEN s
  ELSE LET r == ReadFull(f, s.pos, n)
       IN [s EXCEPT !.err = r.err, !.pos = r.pos, !.data = r.data,
                    !.hashed = s.hashed \o r.data,
                    !.fields = IF r.err = Nil THEN s.fields \cup {field} ELSE s.fields]

\* if cond { return errors.New(e) }
failIf(s, cond, e) ==
  IF s.err # Nil THEN s ELSE IF cond THEN [s EXCEPT !.err = e] ELSE s

\* z.crc32.Reset(); z.adler32.Reset()
Reset(s) == IF s.err # Nil THEN s ELSE [s EXCEPT !.hashed = <<>>]

\* a comparison that stops one byte short of the magic
magicEqual_short(buf) == SubSeq(buf, 1, 8) = SubSeq(lzoMagic, 1, 8)

\* bytes.Equal(z.buf[0:len(lzoMagic)], lzoMagic)
magicEqual(buf) == buf = lzoMagic

\* if !bytes.Equal(...) { return errors.New(e) }
failIfNot(s, e) ==
  IF s.err # Nil THEN s ELSE IF ~magicEqual(s.data) THEN [s EXCEPT !.err = e] ELSE s

\* the tests "version >= 0x0940" of readHeader: they compare the package
\* constant version, not the z.version just read
newFormat(zversion) == version >= 2368

\* the test "version < 0x0900" of readHeader, on the package constant too
tooOld(zversion) == version < 2304

\* a header checksum that ignores flagCRC32
headerSum_adlerOnly(flags, hashed) == adler32(hashed)

\* the checksum of the header: z.crc32.Sum32() or z.adler32.Sum32()
headerSum(flags, hashed) ==
  IF HasFlag(flags, flagCRC32) THEN crc32(hashed) ELSE adler32(hashed)

countFlags(flags, f1, f2) ==
  (IF HasFlag(flags, f1) THEN 1 ELSE 0) + (IF HasFlag(flags, f2) THEN 1 ELSE 0)

\* the steps of readHeader, in the order of the code; each is skipped once
\* an error was returned
readMagic(f, s) ==
  Reset(failIfNot(read(f, s, Len(lzoMagic), "magic"), ErrInvalidHeader))

setVersion(s) ==
  IF s.err # Nil THEN s
  ELSE failIf([s EXCEPT !.version = U16(s.data)], tooOld(U16(s.data)), ErrInvalidHeader)

readVersion(f, s) == setVersion(read(f, s, 2, "version"))

setLibraryVersion(s) ==
  IF s.err # Nil THEN s ELSE [s EXCEPT !.libraryVersion = U16(s.data)]

checkLibraryVersion(s) ==
  IF s.err # Nil THEN s
  ELSE IF s.libraryVersion > s.version THEN [s EXCEPT !.err = ErrIncompatibleVersion]
  ELSE IF s.libraryVersion < 2304 THEN [s EXCEPT !.err = ErrInvalidHeader]
  ELSE s

readLibraryVersion(f, s) == setLibraryVersion(read(f, s, 2, "libraryVersion"))

readLibraryVersion2(f, s) ==
  IF s.err = Nil /\ newFormat(s.version)
    THEN checkLibraryVersion(setLibraryVersion(read(f, s, 2, "libraryVersion2")))
    ELSE s

setMethod(s) == IF s.err # Nil THEN s ELSE [s EXCEPT !.method = s.data[1]]

readMethod(f, s) == setMethod(read(f, s, 1, "method"))

readLevel(f, s) ==
  IF s.err = Nil /\ newFormat(s.version) THEN read(f, s, 1, "level") ELSE s

setFlags(s) == IF s.err # Nil THEN s ELSE [s EXCEPT !.flags = U32(s.data)]

readFlags(f, s) == setFlags(read(f, s, 4, "flags"))

readFilters(f, s) ==
  IF s.err = Nil /\ HasFlag(s.flags, flagFilter) THEN read(f, s, 4, "filters") ELSE s

countChecksums(s) ==
  IF s.err # Nil THEN s
  ELSE [s EXCEPT
          !.num_compressed_checksums = countFlags(s.flags, flagAdler32C, flagCRC32C),
          !.num_decompressed_checksums = countFlags(s.flags, flagAdler32D, flagCRC32D)]

readMode(f, s) == read(f, s, 4, "mode")

readModTime(f, s) == read(f, s, 4, "modTime")

readModTimeHigh(f, s) ==
  IF s.err = Nil /\ newFormat(s.version) THEN read(f, s, 4, "modTimeHigh") ELSE s

readNameLen(f, s) == read(f, s, 1, "nameLen")

setName(s) == IF s.err # Nil THEN s ELSE [s EXCEPT !.name = s.data]

readName(f, s) ==
  IF s.err = Nil /\ s.data[1] > 0 THEN setName(read(f, s, s.data[1], "name")) ELSE s

\* checksum = z.crc32.Sum32() or z.adler32.Sum32(), and the Reset after it
takeChecksum(s) ==
  IF s.err # Nil THEN s
  ELSE [s EXCEPT !.checksum = headerSum(s.flags, s.hashed), !.hashed = <<>>]

\* read checksumHeader and compare it
checkChecksum(s) ==
  IF s.err # Nil THEN s
  ELSE failIf([s EXCEPT !.ckAt = s.pos - 4], s.data # s.checksum, ErrInvalidHeader)

readChecksum(f, s) == checkChecksum(read(f, takeChecksum(s), 4, "checksum"))

checkMethod(s) == failIf(s, s.method <= 0, ErrIncompatibleMethod)

readFixed(f, s) ==
  readLevel(f, readMethod(f, readLibraryVersion2(f,
    readLibraryVersion(f, readVersion(f, readMagic(f, s))))))

readFlagged(f, s) ==
  readModTimeHigh(f, readModTime(f, readMode(f,
    countChecksums(readFilters(f, readFlags(f, s))))))

readHeader(f) ==
  checkMethod(readChecksum(f, readName(f, readNameLen(f,
    readFlagged(f, readFixed(f, newIndexer))))))

\* NewIndexer: the Indexer, or nil with the error of readHeader
NewIndexer(f) ==
  LET z == readHeader(f)
  IN [indexer |-> IF z.err # Nil THEN "nil" ELSE "z", z |-> z, err |-> z.err]

(***************************************************************************)
(* findBlock.                                                              *)
(***************************************************************************)
\* a size check that lets srcLen == 0 through
sizesInvalid_noZero(d, s) == s < 0 \/ s > d

\* srcLen <= 0 || srcLen > dstLen
sizesInvalid(d, s) == s <= 0 \/ s > d

\* a count that adds the compressed checksums for every block
num_chksms_to_skip_all(z, d, s) ==
  z.num_decompressed_checksums + z.num_compressed_checksums

num_chksms_to_skip(z, d, s) ==
  z.num_decompressed_checksums
    + (IF d = s THEN z.num_compressed_checksums ELSE 0)

block_start(position) == position - 8

\* a target that leaves the current offset out
next_block_relative(position, s, skip) == s + skip

next_block(position, s, skip) == position + s + skip

\* what one call of findBlock leaves: z.err, the offset of the file, the
\* list, and the two sizes (-1 when not read)
blockResult(e, p, idx, d, s) ==
  [err |-> e, pos |-> p, indexes |-> idx, dstLen |-> d, srcLen |-> s]

\* both sizes read; position is the offset of the file after them
recordBlock(z, idx, d, s, position) ==
  IF sizesInvalid(d, s)
    THEN blockResult(ErrDataCorruption, position, idx, d, s)
    ELSE blockResult(Nil, next_block(position, s, 4 * num_chksms_to_skip(z, d, s)),
                     Append(idx, block_start(position)), d, s)

\* r2 is the read of srcLen
gotSrcLen(z, idx, d, r2) ==
  IF r2.err # Nil THEN blockResult(r2.err, r2.pos, idx, d, -1)
  ELSE recordBlock(z, idx, d, U32(r2.data), r2.pos)

\* r1 is the read of dstLen
gotDstLen(f, z, idx, r1) ==
  IF r1.err # Nil THEN blockResult(r1.err, r1.pos, idx, -1, -1)
  ELSE IF U32(r1.data) = 0 THEN blockResult(EOF, r1.pos, idx, 0, -1)
  ELSE gotSrcLen(z, idx, U32(r1.data), ReadFull(f, r1.pos, 4))

\* one call of findBlock on the file f at offset p, with the list idx
findBlock(f, p, z, idx) == gotDstLen(f, z, idx, ReadFull(f, p, 4))

(***************************************************************************)
(* The writing loop of CreateIndex.                                        *)
(***************************************************************************)
BE64(v) == <<0, 0, 0, 0>> \o BE32(v)

\* binary.BigEndian.PutUint64(b, v): panics (index out of range) when b is
\* shorter than 8 bytes
PutUint64(b, v) ==
  IF Len(b) < 8 THEN [panic |-> TRUE, buf |-> b]
  ELSE [panic |-> FALSE,
        buf |-> [i \in 1..Len(b) |-> IF i <= 8 THEN BE64(v)[i] ELSE b[i]]]

\* tmp := []byte{}
newTmp == <<>>

RECURSIVE writeIndexes(_, _, _)
writeIndexes(idx, i, out) ==
  IF i > Len(idx) THEN [panic |-> FALSE, out |-> out]
  ELSE LET r == PutUint64(newTmp, idx[i])
       IN IF r.panic THEN [panic |-> TRUE, out |-> out]
          ELSE writeIndexes(idx, i + 1, out \o r.buf)

(***************************************************************************)
(* Source files.  A header is laid out field by field; gate "declared"     *)
(* writes the version-gated fields when the declared version is at least   *)
(* 0x0940 (as lzop writes them), gate "always" writes them for every       *)
(* version.  ck selects the checksum stored: the right one, the one of the *)
(* other algorithm, or the one that also covers the magic.                 *)
(***************************************************************************)
Versions == {2352, 2368, 4144}
LibVersions == {2048, 2368, 4160}
Methods == {0, 1}
FlagChoices == {0, 1, 2, 771, 2049, 4096, 4608}
BlockFlags == {0, 2, 771}
Gates == {"declared", "always"}
Checksums == {"good", "other", "withMagic"}
Terminators == {"sentinel", "none", "partial"}

Fill(n, b) == [i \in 1..n |-> b]

Names == {Fill(n, 97) : n \in 0..MaxNameLen}

HeaderBody(v, l, m, fl, nm, g) ==
  LET opt == g = "always" \/ v >= 2368
  IN BE16(v) \o BE16(8288) \o (IF opt THEN BE16(l) ELSE <<>>)
       \o <<m>> \o (IF opt THEN <<1>> ELSE <<>>)
       \o BE32(fl) \o (IF HasFlag(fl, flagFilter) THEN BE32(0) ELSE <<>>)
       \o BE32(420) \o BE32(1600000000) \o (IF opt THEN BE32(0) ELSE <<>>)
       \o <<Len(nm)>> \o nm

Header(v, l, m, fl, nm, g, ck) ==
  LET body == HeaderBody(v, l, m, fl, nm, g)
      sum == CASE ck = "good" -> headerSum(fl, body)
               [] ck = "other" -> IF HasFlag(fl, flagCRC32) THEN adler32(body)
                                  ELSE crc32(body)
               [] ck = "withMagic" -> headerSum(fl, lzoMagic \o body)
  IN lzoMagic \o body \o sum

GoodHeader(fl) == Header(4144, 2368, 1, fl, <<>>, "always", "good")

\* sizes of a block the scanner accepts, and sizes it rejects
ValidSizes == {<<d, s>> \in (1..MaxLen) \X (1..MaxLen) : s <= d}
CorruptSizes == {<<d, s>> \in (1..MaxLen) \X (0..(MaxLen + 1)) : s = 0 \/ s = d + 1}

RECURSIVE SeqsUpTo(_, _)
SeqsUpTo(S, n) ==
  IF n = 0 THEN {<<>>}
  ELSE LET R == SeqsUpTo(S, n - 1)
       IN R \cup {Append(r, x) : r \in {q \in R : Len(q) = n - 1}, x \in S}

\* up to MaxBlocks blocks, of which only the last may be one the scanner
\* rejects (it reads no block after that one)
BlockLists ==
  SeqsUpTo(ValidSizes, MaxBlocks)
    \cup {Append(r, x) : r \in SeqsUpTo(ValidSizes, MaxBlocks - 1), x \in CorruptSizes}

Block(fl, d, s) ==
  LET n == countFlags(fl, flagAdler32D, flagCRC32D)
             + (IF d = s THEN countFlags(fl, flagAdler32C, flagCRC32C) ELSE 0)
  IN BE32(d) \o BE32(s) \o Fill(4 * n, 17) \o Fill(s, 34)

RECURSIVE Blocks(_, _, _)
Blocks(fl, bs, i) ==
  IF i > Len(bs) THEN <<>>
  ELSE Block(fl, bs[i][1], bs[i][2]) \o Blocks(fl, bs, i + 1)

BlockStream(fl, bs, term) ==
  Blocks(fl, bs, 1) \o (CASE term = "sentinel" -> BE32(0)
                          [] term = "none" -> <<>>
                          [] term = "partial" -> <<0, 0>>)

BaseFile == GoodHeader(1) \o BlockStream(1, <<<<2, 2>>, <<2, 1>>>>, "sentinel")

HeaderFiles ==
  {Header(v, l, m, fl, nm, g, ck) \o BlockStream(fl, bs, "sentinel") :
     v \in Versions, l \in LibVersions, m \in Methods, fl \in FlagChoices,
     nm \in Names, g \in Gates, ck \in Checksums, bs \in {<<<<1, 1>>>>}}

BlockFiles ==
  {GoodHeader(fl) \o BlockStream(fl, bs, term) :
     fl \in BlockFlags, bs \in BlockLists, term \in Terminators}

TruncatedFiles == {SubSeq(BaseFile, 1, n) : n \in 0..Len(BaseFile)}

MagicFiles ==
  {[BaseFile EXCEPT ![k] = (BaseFile[k] + 1) % 256] : k \in 1..Len(lzoMagic)}

Files == HeaderFiles \cup BlockFiles \cup TruncatedFiles \cup MagicFiles

(***************************************************************************)
(* CreateIndex, step by step.                                              *)
(***************************************************************************)
Init ==
  /\ \/ file \in Files /\ srcExists = TRUE /\ createOK = TRUE
     \/ file = BaseFile /\ srcExists = FALSE /\ createOK = TRUE
     \/ file = BaseFile /\ srcExists = TRUE /\ createOK = FALSE
  /\ pc = "start"
  /\ pos = 0
  /\ indexer = "none"
  /\ hdr = newIndexer
  /\ indexes = <<>>
  /\ zerr = Nil
  /\ err = Nil
  /\ dstLen = -1
  /\ srcLen = -1
  /\ indexExists = FALSE
  /\ indexContent = <<>>
  /\ result = "none"

\* lzofile, err := os.Open(filename)
Open ==
  /\ pc = "start"
  /\ IF srcExists
       THEN pc' = "opened" /\ UNCHANGED <<err, result>>
       ELSE pc' = "done" /\ err' = ErrNotExist /\ result' = ErrNotExist
  /\ UNCHANGED <<file, srcExists, createOK, pos, indexer, hdr, indexes, zerr,
                 dstLen, srcLen, indexExists, indexContent>>

\* indexfile, err := os.Create(index_file_name)
Create ==
  /\ pc = "opened"
  /\ IF createOK
       THEN /\ pc' = "created"
            /\ indexExists' = TRUE
            /\ indexContent' = <<>>
            /\ UNCHANGED <<err, result>>
       ELSE /\ pc' = "done"
            /\ err' = ErrCreate
            /\ result' = ErrCreate
            /\ UNCHANGED <<indexExists, indexContent>>
  /\ UNCHANGED <<file, srcExists, createOK, pos, indexer, hdr, indexes, zerr,
                 dstLen, srcLen>>

\* indexer, err := NewIndexer(lzofile)
CallNewIndexer ==
  /\ pc = "created"
  /\ LET r == NewIndexer(file)
     IN /\ indexer' = r.indexer
        /\ hdr' = r.z
        /\ err' = r.err
        /\ pos' = r.z.pos
  /\ pc' = "scan"
  /\ UNCHANGED <<file, srcExists, createOK, indexes, zerr, dstLen, srcLen,
                 indexExists, indexContent, result>>

\* one iteration of the loop: indexer.findBlock(); a nil indexer is
\* dereferenced there, and CreateIndex panics
CallFindBlock ==
  /\ pc = "scan"
  /\ IF indexer = "nil"
       THEN /\ pc' = "done"
            /\ result' = Panic
            /\ UNCHANGED <<pos, indexes, zerr, dstLen, srcLen>>
       ELSE LET r == findBlock(file, pos, hdr, indexes)
            IN /\ pos' = r.pos
               /\ indexes' = r.indexes
               /\ zerr' = r.err
               /\ dstLen' = r.dstLen
               /\ srcLen' = r.srcLen
               /\ pc' = IF r.err # Nil THEN "write" ELSE "scan"
               /\ UNCHANGED result
  /\ UNCHANGED <<file, srcExists, createOK, indexer, hdr, err, indexExists,
                 indexContent>>

\* after the loop: write the offsets when indexer.err == io.EOF, else
\* return indexer.err
Finish ==
  /\ pc = "write"
  /\ IF zerr = EOF
       THEN LET w == writeIndexes(indexes, 1, <<>>)
            IN /\ indexContent' = indexContent \o w.out
               /\ result' = IF w.panic THEN Panic ELSE Nil
       ELSE /\ result' = zerr
            /\ UNCHANGED indexContent
  /\ pc' = "done"
  /\ UNCHANGED <<file, srcExists, createOK, pos, indexer, hdr, indexes, zerr,
                 err, dstLen, srcLen, indexExists>>

Next == Open \/ Create \/ CallNewIndexer \/ CallFindBlock \/ Finish

Spec == Init /\ [][Next]_vars
(***************************************************************************)
(* Properties.                                                             *)
(***************************************************************************)
HeaderParsed == indexer # "none"
Done == pc = "done"
SentinelRead == indexer = "z" /\ dstLen = 0

StartsWithMagic(f) ==
  Len(f) >= Len(lzoMagic) /\ \A i \in 1..Len(lzoMagic) : f[i] = lzoMagic[i]

U32At(f, p) == U32(SubSeq(f, p + 1, p + 4))

\* the offsets, each as 8 bytes big-endian, one after the other
EncodeOffsets(idx) ==
  [i \in 1..(8 * Len(idx)) |-> BE64(idx[((i - 1) \div 8) + 1])[((i - 1) % 8) + 1]]

\* C1: once CreateIndex has returned, the index file exists if and only if
\* the scan ended by reading the sentinel
C1_IndexFileIffSentinel == Done => (indexExists <=> SentinelRead)

\* C2: when NewIndexer returned an error, CreateIndex returns that error
\* (and does not end in any other way)
C2_HeaderErrorReturned == (Done /\ indexer = "nil") => result = err

\* C3: when the scan ended at the sentinel, the index file holds exactly the
\* offsets in order, 8 bytes big-endian each: 8*n bytes for n offsets
C3_IndexBytes ==
  (Done /\ SentinelRead) =>
     /\ indexContent = EncodeOffsets(indexes)
     /\ Len(indexContent) = 8 * Len(indexes)

\* C4: CreateIndex takes the clean-termination branch only when the last
\* findBlock read a complete dstLen equal to 0
C4_CleanOnlyOnSentinel == (Done /\ indexer = "z" /\ zerr = EOF) => dstLen = 0

\* C5 as stated: every stream that does not begin with the magic, shorter
\* ones included, fails with "invalid header" and yields no Indexer
C5_Original ==
  (HeaderParsed /\ ~StartsWithMagic(file)) =>
     (indexer = "nil" /\ err = ErrInvalidHeader)

\* C5 as amended: a stream that does not begin with the magic yields no
\* Indexer; the error is "invalid header" when the stream has at least 9
\* bytes, io.EOF when it is empty and io.ErrUnexpectedEOF when it has 1 to 8
\* bytes
C5_Amended ==
  (HeaderParsed /\ ~StartsWithMagic(file)) =>
     /\ indexer = "nil"
     /\ err = IF Len(file) >= Len(lzoMagic) THEN ErrInvalidHeader
              ELSE IF Len(file) = 0 THEN EOF ELSE ErrUnexpectedEOF

C5_Witness ==
  /\ HeaderParsed /\ indexer = "nil" /\ err = ErrInvalidHeader
  /\ Len(file) >= Len(lzoMagic)
  /\ Cardinality({i \in 1..Len(lzoMagic) : file[i] # lzoMagic[i]}) = 1
  /\ file[Len(lzoMagic)] # lzoMagic[Len(lzoMagic)]

DeclaredSum == SubSeq(file, hdr.ckAt + 1, hdr.ckAt + 4)
ExpectedSum ==
  LET covered == SubSeq(file, Len(lzoMagic) + 1, hdr.ckAt)
  IN IF HasFlag(hdr.flags, flagCRC32) THEN crc32(covered) ELSE adler32(covered)

\* C6: header parsing succeeds only if the checksum field equals the CRC-32
\* (flagCRC32 set) or Adler-32 (otherwise) of the header bytes between the
\* magic and the checksum field; when the field is read and differs,
\* readHeader fails with "invalid header"
C6_HeaderChecksum ==
  HeaderParsed =>
     /\ indexer = "z" => (hdr.ckAt >= 0 /\ DeclaredSum = ExpectedSum)
     /\ (hdr.ckAt >= 0 /\ DeclaredSum # ExpectedSum) =>
          (indexer = "nil" /\ err = ErrInvalidHeader)

C6_Witness ==
  /\ HeaderParsed /\ hdr.ckAt >= 0 /\ HasFlag(hdr.flags, flagCRC32)
  /\ DeclaredSum # ExpectedSum /\ err = ErrInvalidHeader

\* the block at offset p has both size fields, dstLen # 0, and srcLen == 0
\* or srcLen > dstLen
CorruptAt(p) ==
  /\ p + 8 <= Len(file)
  /\ U32At(file, p) # 0
  /\ (U32At(file, p + 4) = 0 \/ U32At(file, p + 4) > U32At(file, p))

\* C7: findBlock on a block with srcLen == 0 or srcLen > dstLen sets the
\* error "data corruption", appends nothing and does not seek (the offset is
\* just past the two size fields); the loop stops, and CreateIndex returns
\* that error with the earlier offsets still in the list
C7_Corruption ==
  [][/\ (pc = "scan" /\ indexer = "z" /\ CorruptAt(pos)) =>
          /\ zerr' = ErrDataCorruption
          /\ indexes' = indexes
          /\ pos' = pos + 8
          /\ pc' = "write"
     /\ (pc = "write" /\ zerr = ErrDataCorruption) =>
          /\ pc' = "done"
          /\ result' = ErrDataCorruption
          /\ indexes' = indexes]_vars

C7_Witness ==
  /\ Done /\ result = ErrDataCorruption /\ Len(indexes) >= 1
  /\ srcLen > dstLen

StrictlyIncreasing(idx) == \A i, j \in 1..Len(idx) : i < j => idx[i] < idx[j]

\* C8: after a successful header parse the offset list is strictly
\* increasing in every state, and every step either appends one offset
\* greater than all the offsets present (findBlock returned nil) or leaves
\* the list unchanged
C8_AppendOnly ==
  /\ [](indexer = "z" => StrictlyIncreasing(indexes))
  /\ [][indexer = "z" =>
          IF pc = "scan" /\ zerr' = Nil
            THEN /\ Len(indexes') = Len(indexes) + 1
                 /\ SubSeq(indexes', 1, Len(indexes)) = indexes
                 /\ \A i \in 1..Len(indexes) : indexes[i] < indexes'[Len(indexes')]
            ELSE indexes' = indexes]_vars

C8_Witness == indexer = "z" /\ Len(indexes) >= 2 /\ zerr # Nil

\* C9: the first offset is the position after the header; each recorded
\* offset o has both size fields in the file, and the next position scanned
\* (the next offset, if any) is o + 8 + 4*checksumsToSkip + srcLen, with
\* checksumsToSkip = decompressed count + (compressed count if dstLen ==
\* srcLen)
C9_Offsets ==
  indexer = "z" =>
     /\ Len(indexes) >= 1 => indexes[1] = hdr.ckAt + 4
     /\ \A k \in 1..Len(indexes) :
          LET d == U32At(file, indexes[k])
              s == U32At(file, indexes[k] + 4)
              n == hdr.num_decompressed_checksums
                     + (IF d = s THEN hdr.num_compressed_checksums ELSE 0)
              nxt == indexes[k] + 8 + 4 * n + s
          IN /\ indexes[k] + 8 <= Len(file)
             /\ IF k < Len(indexes) THEN indexes[k + 1] = nxt
                ELSE (pc = "scan" => pos = nxt)

C9_Witness ==
  /\ indexer = "z" /\ Len(indexes) >= 2
  /\ hdr.num_decompressed_checksums > 0 /\ hdr.num_compressed_checksums > 0
  /\ U32At(file, indexes[1]) = U32At(file, indexes[1] + 4)
  /\ U32At(file, indexes[2]) # U32At(file, indexes[2] + 4)

\* C10: the version-gated fields (second libraryVersion, level,
\* modTimeHigh) are read only when the formatVersion read from the stream is
\* at least 0x0940
C10_GatedByParsedVersion ==
  (HeaderParsed /\ "version" \in hdr.fields /\ hdr.version < 2368) =>
     hdr.fields \cap {"libraryVersion2", "level", "modTimeHigh"} = {}
====
